---------------------------- MODULE Spec2Model ----------------------------
(***************************************************************************)
(* The download / extract / transform pipeline of tapas:                   *)
(*   tapas/dataset.py   download_from_figshare, download, extract_zip,     *)
(*                      process_dataset, main                              *)
(*   tapas/pipeline.py  run                                                *)
(*                                                                         *)
(* Strings are sequences of tokens.  A token is an atomic piece of text    *)
(* ("/", "?", "files", "__MACOSX", "m1.csv", ...); the string a sequence   *)
(* stands for is the concatenation of its tokens.  No token contains a     *)
(* percent escape or a "+", so urllib's unquote leaves every token as it   *)
(* is.                                                                     *)
(***************************************************************************)
EXTENDS Integers, Sequences, FiniteSets, TLC

(***************************************************************************)
(* Bounds of the model.                                                    *)
(***************************************************************************)
\* longest URL, in chunks of UrlChunks
MaxUrlLen == 5
\* most CSV files in the adjacency directory of a generated archive
MaxAdj == 6
\* most name chunks, over all its entries, of an archive of arbitrary names
MaxArchiveLen == 3
\* most consecutive invocations of run()
MaxRuns == 3
\* most body chunks the server streams
MaxChunks == 2

(***************************************************************************)
(* Program constants.                                                      *)
(***************************************************************************)
\* adj_files[:5]
SampleSize == 5

\* =========================================================================
\* Generic sequence helpers
\* =========================================================================
Last(s) == s[Len(s)]

IsPrefix(p, s) == Len(p) <= Len(s) /\ SubSeq(s, 1, Len(p)) = p

Range(s) == {s[i] : i \in 1..Len(s)}

\* index of the first occurrence of token t in s, 0 when there is none
IndexOf(s, t) ==
    IF \E i \in 1..Len(s) : s[i] = t
    THEN CHOOSE i \in 1..Len(s) : s[i] = t /\ \A j \in 1..(i-1) : s[j] # t
    ELSE 0

RECURSIVE Flatten(_)
Flatten(ss) == IF ss = <<>> THEN <<>> ELSE Head(ss) \o Flatten(Tail(ss))

\* str.split(sep): the pieces of s between the occurrences of token sep
RECURSIVE Split(_, _)
Split(s, sep) ==
    IF \A i \in 1..Len(s) : s[i] # sep THEN <<s>>
    ELSE <<SubSeq(s, 1, IndexOf(s, sep) - 1)>>
         \o Split(SubSeq(s, IndexOf(s, sep) + 1, Len(s)), sep)

\* the part of s before the first token t (all of s when there is none)
Before(s, t) == IF IndexOf(s, t) = 0 THEN s ELSE SubSeq(s, 1, IndexOf(s, t) - 1)

\* the part of s after the first token t (nothing when there is none)
After(s, t) == IF IndexOf(s, t) = 0 THEN <<>> ELSE SubSeq(s, IndexOf(s, t) + 1, Len(s))

\* all orderings of a finite set, as sequences
RECURSIVE Orderings(_)
Orderings(S) ==
    IF S = {} THEN {<<>>}
    ELSE UNION {{<<x>> \o o : o \in Orderings(S \ {x})} : x \in S}

\* all sequences over S of length at most n
SeqsUpTo(S, n) == UNION {[1..k -> S] : k \in 0..n}

\* =========================================================================
\* download_from_figshare: file-identifier resolution (dataset.py 36-48)
\* =========================================================================
Digits == {"1", "2"}

NoId == <<"<none>">>

\* urlparse(url).query: the text after the first "?" of the part of the
\* URL that precedes the first "#"
UrlQuery(url) == After(Before(url, "#"), "?")

\* parse_qsl(query): the (name, value) pairs of the "&"-separated fields
\* that hold an "=" and a non-blank value, in order
RECURSIVE QueryPairs(_)
QueryPairs(fields) ==
    IF fields = <<>> THEN <<>>
    ELSE IF After(Head(fields), "=") = <<>>
    THEN QueryPairs(Tail(fields))
    ELSE <<[name |-> Before(Head(fields), "="), value |-> After(Head(fields), "=")]>>
         \o QueryPairs(Tail(fields))

\* parse_qs(parsed_url.query)
ParseQs(url) == QueryPairs(Split(UrlQuery(url), "&"))

\* the pairs named "file"
IsFilePair(pair) == pair.name = <<"file">>

\* "file" in query_params
HasFileParam(url) == SelectSeq(ParseQs(url), IsFilePair) # <<>>

\* query_params["file"][0]
FileParam(url) == Head(SelectSeq(ParseQs(url), IsFilePair)).value

\* the longest run of digits of s that starts at position i
RECURSIVE DigitRun(_, _)
DigitRun(s, i) ==
    IF i <= Len(s) /\ s[i] \in Digits THEN <<s[i]>> \o DigitRun(s, i+1) ELSE <<>>

\* a match of /files/(\d+) starts at position i of url
PathMatchAt(url, i) ==
    /\ i + 3 <= Len(url)
    /\ url[i] = "/" /\ url[i+1] = "files" /\ url[i+2] = "/"
    /\ url[i+3] \in Digits

\* re.search(r"/files/(\d+)", url): group 1 of the leftmost match, or NoId
PathFileId(url) ==
    IF \E i \in 1..Len(url) : PathMatchAt(url, i)
    THEN DigitRun(url, 3 + CHOOSE k \in 1..Len(url) :
                          PathMatchAt(url, k) /\ \A j \in 1..(k-1) : ~PathMatchAt(url, j))
    ELSE NoId

\* ResolveFileId with the two sources tried in the other order: the path
\* segment first, the query parameter as the fallback
ResolveFileIdPathFirst(url) ==
    IF PathFileId(url) # NoId THEN PathFileId(url)
    ELSE IF HasFileParam(url) THEN FileParam(url) ELSE NoId

\* lines 39-48: the file id, or NoId where the code raises ValueError
ResolveFileId(url) ==
    IF ~HasFileParam(url) THEN PathFileId(url) ELSE FileParam(url)

\* line 53
DownloadUrl(file_id) == <<"https://ndownloader.figshare.com/files/">> \o file_id


\* =========================================================================
\* Files and directories
\*
\* A path is a sequence of components, a component a non-empty sequence of
\* tokens.  A directory tree is a function from the paths that exist below
\* (and including) its root <<>> to nodes.
\* =========================================================================
Blob == [ok |-> FALSE, rows |-> 0, cols |-> 0]

\* the bytes of a CSV table pandas can load, of the given shape
Csv(r, c) == [ok |-> TRUE, rows |-> r, cols |-> c]

DirNode == [kind |-> "dir", data |-> Blob]

FileNode(d) == [kind |-> "file", data |-> d]

\* the tree in which not even the root exists
NoTree == [q \in {} |-> DirNode]

Exists(tree, p) == p \in DOMAIN tree

IsDir(tree, p) == Exists(tree, p) /\ tree[p].kind = "dir"

IsFile(tree, p) == Exists(tree, p) /\ tree[p].kind = "file"

ProperPrefixes(p) == {SubSeq(p, 1, k) : k \in 0..(Len(p)-1)}

\* tree with node n at path p (replacing what was there)
Put(tree, p, n) == [q \in DOMAIN tree \cup {p} |-> IF q = p THEN n ELSE tree[q]]

\* os.makedirs: tree with every path of ps that is missing made a directory
MakeDirs(tree, ps) ==
    [q \in DOMAIN tree \cup ps |-> IF q \in DOMAIN tree THEN tree[q] ELSE DirNode]

\* Path.mkdir(parents=True, exist_ok=True) on the root of a tree
MkRoot(tree) == MakeDirs(tree, {<<>>})

\* =========================================================================
\* The archive at a path: a ZIP file is a sequence of entries, each a name
\* (a string with "/" separators) and the entry's bytes
\* =========================================================================
NoFile == [exists |-> FALSE, valid |-> FALSE, entries |-> <<>>]

\* a file that is no ZIP archive (a truncated download among them)
Truncated == [exists |-> TRUE, valid |-> FALSE, entries |-> <<>>]

ZipOf(es) == [exists |-> TRUE, valid |-> TRUE, entries |-> es]

Entry(n, d) == [name |-> n, data |-> d]

\* zip_ref.namelist()
NameList(es) == [i \in 1..Len(es) |-> es[i].name]

\* f.startswith("__MACOSX")
StartsWithMacosx(f) == Len(f) >= 1 /\ f[1] = "__MACOSX"

\* f.endswith(".DS_Store")
EndsWithDsStore(f) == Len(f) >= 1 /\ Last(f) = ".DS_Store"

\* KeepEntry without the test for the hidden-file suffix
KeepEntryMacosxOnly(f) == ~StartsWithMacosx(f)

\* the condition of the comprehension at lines 112-116
KeepEntry(f) == ~StartsWithMacosx(f) /\ ~EndsWithDsStore(f)

\* file_list, lines 112-116
FileList(es) == SelectSeq(NameList(es), KeepEntry)

\* ZipFile.getinfo(name): the last entry of that name
GetInfo(es, n) ==
    es[CHOOSE i \in 1..Len(es) :
           es[i].name = n /\ \A j \in (i+1)..Len(es) : es[j].name # n]

\* ZipInfo.is_dir()
EntryIsDir(n) == Len(n) >= 1 /\ Last(n) = "/"

InvalidPathParts == {<<>>, <<".">>, <<"..">>}

KeepPart(x) == x \notin InvalidPathParts

\* ZipFile._extract_member: the path below the destination an entry named n
\* is written to: its "/"-separated parts without the empty, "." and ".."
\* ones
TargetPath(n) == SelectSeq(Split(n, "/"), KeepPart)

\* ZipFile._extract_member with the entry's target path p: the parent
\* directories are made, then the directory or the file
ExtractAt(tree, p, isdir, data) ==
    IF \E q \in ProperPrefixes(p) : IsFile(tree, q)
    THEN [tree |-> tree, ok |-> FALSE]
    ELSE IF isdir
    THEN IF IsFile(tree, p)
         THEN [tree |-> MakeDirs(tree, ProperPrefixes(p)), ok |-> FALSE]
         ELSE [tree |-> MakeDirs(tree, ProperPrefixes(p) \cup {p}), ok |-> TRUE]
    ELSE IF IsDir(tree, p)
         THEN [tree |-> MakeDirs(tree, ProperPrefixes(p)), ok |-> FALSE]
         ELSE [tree |-> Put(MakeDirs(tree, ProperPrefixes(p)), p, FileNode(data)),
               ok |-> TRUE]

\* zip_ref.extract(file, extract_to), line 120, on the tree rooted at
\* extract_to: the tree afterwards, and whether the call returned (ok) or
\* raised an OSError
ExtractMember(tree, es, n) ==
    ExtractAt(tree, TargetPath(n), EntryIsDir(n), GetInfo(es, n).data)

\* the state of the loop of lines 119-120 after one more call, of
\* extract(n), that left r
LoopStep(acc, r, n) ==
    [tree |-> r.tree, ok |-> r.ok,
     done |-> IF r.ok THEN Append(acc.done, n) ELSE acc.done]

\* the loop of lines 119-120 over the names ns, stopping where extract
\* raises: the tree, whether the loop completed, and the names extracted
RECURSIVE ExtractLoop(_, _, _)
ExtractLoop(acc, es, ns) ==
    IF ns = <<>> \/ ~acc.ok THEN acc
    ELSE ExtractLoop(LoopStep(acc, ExtractMember(acc.tree, es, Head(ns)), Head(ns)),
                     es, Tail(ns))

DataDir == << <<"Data">> >>

\* lines 122-129, after a loop that left r
FindDataDir(r) ==
    IF ~r.ok
    THEN [tree |-> r.tree, exc |-> "OSError", data_dir |-> <<>>,
          log |-> <<"info:extracting">>, done |-> r.done]
    ELSE IF Exists(r.tree, DataDir)
    THEN [tree |-> r.tree, exc |-> "none", data_dir |-> DataDir,
          log |-> <<"info:extracting", "success:extracted">>, done |-> r.done]
    ELSE [tree |-> r.tree, exc |-> "none", data_dir |-> <<>>,
          log |-> <<"info:extracting", "warning:no-data-dir">>, done |-> r.done]

\* extract_zip(zip_path, extract_to), lines 107-129: the tree at extract_to
\* afterwards, the exception raised ("none" when it returns), the returned
\* directory as a path below extract_to, the log lines written, and the
\* names zip_ref.extract was called with and returned for
ExtractZip(zip, tree) ==
    IF ~zip.valid
    THEN [tree |-> MkRoot(tree), exc |-> "BadZipFile", data_dir |-> <<>>,
          log |-> <<"info:extracting">>, done |-> <<>>]
    ELSE FindDataDir(ExtractLoop([tree |-> MkRoot(tree), ok |-> TRUE, done |-> <<>>],
                                 zip.entries, FileList(zip.entries)))

\* =========================================================================
\* process_dataset (dataset.py 132-218)
\* =========================================================================
\* the output directory: whether it exists, and its two derived files, each
\* <<>> when absent and <<contents>> when present
NoOutputDir == [exists |-> FALSE, prevalence |-> <<>>, metadata |-> <<>>]

EmptyOutputDir == [exists |-> TRUE, prevalence |-> <<>>, metadata |-> <<>>]

\* line 159
PrevalencePath(data_dir) ==
    data_dir \o << <<"1.Prevalence">>, <<"Prevalence_Sex_Age_Year_ICD.csv">> >>

\* line 175
AdjMatricesDir(data_dir) == data_dir \o << <<"3.AdjacencyMatrices">> >>

\* names of the adjacency matrix files of the generated archives
AdjNames == <<"m1.csv", "m2.csv", "m3.csv", "m4.csv", "m5.csv", "m6.csv",
              "m7.csv", "m8.csv">>

\* the tokens that end in ".csv"
CsvTokens == Range(AdjNames) \cup {"Prevalence_Sex_Age_Year_ICD.csv"}

\* pd.read_csv(path) returns a frame (it raises on a directory and on bytes
\* that are no table)
CanReadCsv(tree, p) == IsFile(tree, p) /\ tree[p].data.ok

\* df.shape of pd.read_csv(path)
Shape(tree, p) == <<tree[p].data.rows, tree[p].data.cols>>

\* df.to_csv(path, index=...): the table written, with one more column when
\* the index is written
ToCsv(d, index) == Csv(d.rows, IF index THEN d.cols + 1 ELSE d.cols)

\* lines 159-172: the output directory and the log after the prevalence step
PrevalenceStep(tree, data_dir, out) ==
    IF ~Exists(tree, PrevalencePath(data_dir)) THEN [out |-> out, log |-> <<>>]
    ELSE IF ~CanReadCsv(tree, PrevalencePath(data_dir))
    THEN [out |-> out, log |-> <<"error:prevalence">>]
    ELSE [out |-> [out EXCEPT !.exists = TRUE,
                              !.prevalence =
                                  <<ToCsv(tree[PrevalencePath(data_dir)].data, FALSE)>>],
          log |-> <<"success:saved-prevalence">>]

\* adj_matrices_dir.glob("*.csv"), line 178, as a set: the children of the
\* directory whose name ends in ".csv"
GlobCsv(tree, dir) ==
    IF ~IsDir(tree, dir) THEN {}
    ELSE {p \in DOMAIN tree :
            /\ Len(p) = Len(dir) + 1
            /\ IsPrefix(dir, p)
            /\ Last(Last(p)) \in CsvTokens}

\* adj_files[:5], line 185
Sample(adj_files) ==
    SubSeq(adj_files, 1, IF Len(adj_files) < SampleSize THEN Len(adj_files) ELSE SampleSize)

\* adj_file.relative_to(data_dir), line 192
RelativeTo(p, base) == SubSeq(p, Len(base) + 1, Len(p))

\* the dictionary appended at lines 189-193
MatrixRecord(tree, data_dir, adj_file) ==
    [filename  |-> Last(adj_file),
     shape     |-> Shape(tree, adj_file),
     file_path |-> RelativeTo(adj_file, data_dir)]

\* one turn of the loop of lines 185-195
SampleStep(acc, tree, data_dir, adj_file) ==
    IF CanReadCsv(tree, adj_file)
    THEN [acc EXCEPT !.records = Append(@, MatrixRecord(tree, data_dir, adj_file))]
    ELSE [acc EXCEPT !.log = Append(@, "warning:matrix-load-failed")]

\* the loop of lines 185-195: processed_matrices and the warnings logged
RECURSIVE SampleLoop(_, _, _, _)
SampleLoop(acc, tree, data_dir, files) ==
    IF files = <<>> THEN acc
    ELSE SampleLoop(SampleStep(acc, tree, data_dir, Head(files)), tree, data_dir,
                    Tail(files))

\* lines 197-202, with l what the loop left
SaveMetadata(out, l) ==
    IF l.records = <<>>
    THEN [out |-> out, exc |-> "none", log |-> l.log, records |-> <<>>]
    ELSE IF ~out.exists
    THEN [out |-> out, exc |-> "OSError", log |-> l.log, records |-> l.records]
    ELSE [out |-> [out EXCEPT !.metadata = <<l.records>>], exc |-> "none",
          log |-> Append(l.log, "success:saved-metadata"), records |-> l.records]

\* lines 175-204, with adj_files the list glob returned: the output
\* directory, the exception raised ("none" when the step completes), the
\* log, and processed_matrices
AdjacencyStep(tree, data_dir, out, adj_files) ==
    IF ~Exists(tree, AdjMatricesDir(data_dir))
    THEN [out |-> out, exc |-> "none", log |-> <<>>, records |-> <<>>]
    ELSE IF adj_files = <<>>
    THEN [out |-> out, exc |-> "none", log |-> <<"warning:no-matrix-files">>,
          records |-> <<>>]
    ELSE SaveMetadata(out, SampleLoop([records |-> <<>>, log |-> <<>>], tree, data_dir,
                                      Sample(adj_files)))

\* the files glob finds in what extract_zip left (x)
GlobAfter(x) ==
    IF x.exc = "none" THEN GlobCsv(x.tree, AdjMatricesDir(x.data_dir)) ELSE {}

\* lines 206-218, with x what extract_zip left, p the prevalence step and a
\* the adjacency step
Finish(x, p, a) ==
    [tree |-> x.tree, out |-> a.out, exc |-> a.exc,
     log |-> <<"info:processing">> \o x.log \o p.log \o a.log
             \o (IF a.exc = "none" THEN <<"success:processing-complete">> ELSE <<>>),
     data_dir |-> x.data_dir, records |-> a.records, done |-> x.done]

\* lines 174-218, with x what extract_zip left and p the prevalence step
AfterPrevalence(x, p, adj_files) ==
    Finish(x, p, AdjacencyStep(x.tree, x.data_dir, p.out, adj_files))

\* lines 158-218, with x what extract_zip left
AfterExtract(x, out, adj_files) ==
    IF x.exc # "none"
    THEN [tree |-> x.tree, out |-> out, exc |-> x.exc,
          log |-> <<"info:processing">> \o x.log, data_dir |-> <<>>, records |-> <<>>,
          done |-> x.done]
    ELSE AfterPrevalence(x, PrevalenceStep(x.tree, x.data_dir, out), adj_files)

\* ProcessDataset without the check of lines 148-151
ProcessDatasetNoCheck(zip, tree, out, x, adj_files) == AfterExtract(x, out, adj_files)

\* process_dataset(input_path, output_dir, extract_to), with zip the file at
\* input_path, tree the directory at extract_to, out the directory at
\* output_dir, x what extract_zip(input_path, extract_to) leaves where it is
\* called, and adj_files the list glob returns: the two directories
\* afterwards, the exception raised ("none" when it returns), the log, the
\* two locals data_dir and processed_matrices, and the names extracted
ProcessDataset(zip, tree, out, x, adj_files) ==
    IF ~zip.exists
    THEN [tree |-> tree, out |-> out, exc |-> "FileNotFoundError",
          log |-> <<"error:input-not-found">>, data_dir |-> <<>>, records |-> <<>>,
          done |-> <<>>]
    ELSE AfterExtract(x, out, adj_files)

\* =========================================================================
\* State
\* =========================================================================
VARIABLES
    cmd,            \* the command invoked: "run", "download" or "process"
    url,            \* argument url
    skip_download,  \* argument skip_download of run
    phase,          \* where the invocation stands
    local,          \* the file at download_path / output_path / input_path
    remote,         \* the file the figshare server holds
    remoteChunks,   \* the number of chunks iter_content yields for it
    stream,         \* the open response: whether it is open, chunks written
    tree,           \* the directory at extract_to
    out,            \* the directory at output_dir
    netRequests,    \* requests.get calls made, over all invocations
    requested,      \* the URL of the last requests.get
    fileId,         \* file_id of the last download_from_figshare
    exc,            \* the exception the invocation ended with
    log,            \* the log lines of the invocation
    downloadCalls,  \* download_from_figshare calls of the invocation
    processCalls,   \* process_dataset calls of the invocation
    input,          \* the file process_dataset found at input_path
    adj_files,      \* adj_files of the last process_dataset
    records,        \* processed_matrices of the last process_dataset
    data_dir,       \* data_dir of the last process_dataset
    done,           \* the entry names the last extract_zip extracted
    before,         \* local, tree, out and netRequests when the invocation started
    runs            \* invocations started

vars == <<cmd, url, skip_download, phase, local, remote, remoteChunks, stream,
          tree, out, netRequests, requested, fileId, exc, log, downloadCalls,
          processCalls, input, adj_files, records, data_dir, done, before, runs>>

Closed == [open |-> FALSE, got |-> 0]

Snapshot == [local |-> local, tree |-> tree, out |-> out, net |-> netRequests]

\* =========================================================================
\* Inputs
\* =========================================================================
\* the pieces URLs are built from
UrlChunks == {<<"/", "files", "/">>, <<"?">>, <<"file", "=">>, <<"&">>, <<"#">>,
              <<"1">>, <<"2">>}

Urls == {Flatten(cs) : cs \in SeqsUpTo(UrlChunks, MaxUrlLen)}

\* .../27102553?file=52015403 (the default of run and download), a URL of
\* the form .../files/<id>, and an article URL that names no file
DefaultUrl == <<"https://figshare.com/articles/dataset/", "2", "?", "file", "=", "1">>

RunUrls == {DefaultUrl,
            <<"https://figshare.com/articles/dataset/", "2", "/", "files", "/", "1">>,
            <<"https://figshare.com/articles/dataset/", "2">>}

\* the archive of a dataset: platform artifacts, the data folders below
\* prefix (<<"Data", "/">> or nothing), a prevalence table ("ok"), bytes
\* that are no table ("bad") or none ("absent"), and, with hasAdj, the
\* adjacency directory holding n matrices of which those of bad do not load
DatasetEntries(prefix, prev, hasAdj, n, bad) ==
    <<Entry(<<"__MACOSX", "/">>, Blob),
      Entry(<<"__MACOSX", "/", "._Data">>, Blob)>>
    \o (IF prefix = <<>> THEN <<>> ELSE <<Entry(prefix, Blob)>>)
    \o (IF prev = "absent" THEN <<>>
        ELSE <<Entry(prefix \o <<"1.Prevalence", "/">>, Blob),
               Entry(prefix \o <<"1.Prevalence", "/", "Prevalence_Sex_Age_Year_ICD.csv">>,
                     IF prev = "ok" THEN Csv(3, 4) ELSE Blob)>>)
    \o (IF ~hasAdj THEN <<>>
        ELSE <<Entry(prefix \o <<"3.AdjacencyMatrices", "/">>, Blob),
               Entry(prefix \o <<"3.AdjacencyMatrices", "/", ".DS_Store">>, Blob)>>
             \o [i \in 1..n |->
                   Entry(prefix \o <<"3.AdjacencyMatrices", "/", AdjNames[i]>>,
                         IF i \in bad THEN Blob ELSE Csv(i, i + 1))])

Prefixes == {<<>>, <<"Data", "/">>}

\* the sets of matrices that do not load: none, the first, the first two,
\* or all (the order in which glob lists the files is arbitrary)
BadSets(n) == {b \cap 1..n : b \in {{}, {1}, {1, 2}, 1..n}}

Prevalences == {"absent", "ok", "bad"}

DatasetArchives ==
    {ZipOf(DatasetEntries(pre, prev, FALSE, 0, {})) : pre \in Prefixes, prev \in Prevalences}
    \cup UNION {{ZipOf(DatasetEntries(pre, prev, TRUE, n, bad)) :
                    pre \in Prefixes, prev \in Prevalences, bad \in BadSets(n)} :
                 n \in 0..MaxAdj}

\* the archive the server holds
PublishedArchive == ZipOf(DatasetEntries(<<"Data", "/">>, "ok", TRUE, 2, {}))

\* the tokens entry names of arbitrary archives are built from
NameChunks == {<<"__MACOSX">>, <<".DS_Store">>, <<"..", "/">>, <<"a", "/">>, <<"a">>}

\* archives of arbitrary names: at most MaxArchiveLen chunks in all
RECURSIVE NameLists(_)
NameLists(k) ==
    IF k = 0 THEN {<<>>}
    ELSE {<<>>} \cup
         UNION {{<<Flatten(cs)>> \o rest : rest \in NameLists(k - j),
                                           cs \in [1..j -> NameChunks]} : j \in 1..k}

\* archives of arbitrary entry names
NamedArchives ==
    {ZipOf([i \in 1..Len(ns) |-> Entry(ns[i], Blob)]) : ns \in NameLists(MaxArchiveLen)}

\* =========================================================================
\* Initial states
\* =========================================================================
\* what every invocation starts with
Fresh ==
    /\ stream = Closed
    /\ netRequests = 0
    /\ requested = <<>>
    /\ fileId = NoId
    /\ exc = "none"
    /\ log = <<>>
    /\ downloadCalls = 0
    /\ processCalls = 0
    /\ input = NoFile
    /\ adj_files = <<>>
    /\ records = <<>>
    /\ data_dir = <<>>
    /\ done = <<>>
    /\ before = [local |-> local, tree |-> tree, out |-> out, net |-> 0]
    /\ runs = 1

\* python -m tapas.pipeline: run(url, download_path, extract_to, output_dir,
\* skip_download)
Init ==
    /\ cmd = "run"
    /\ url \in RunUrls
    /\ skip_download = FALSE
    /\ phase = "NOT_STARTED"
    /\ local \in {NoFile, Truncated, PublishedArchive}
    /\ remote \in {PublishedArchive,
                   ZipOf(DatasetEntries(<<"Data", "/">>, "absent", TRUE, 1, {}))}
    /\ remoteChunks \in 1..MaxChunks
    /\ tree = NoTree
    /\ out \in {NoOutputDir, EmptyOutputDir}
    /\ Fresh

\* python -m tapas.dataset download: download(url, output_path)
InitDownload ==
    /\ cmd = "download"
    /\ url \in Urls
    /\ skip_download = FALSE
    /\ phase = "DOWNLOADING"
    /\ local = NoFile
    /\ remote = PublishedArchive
    /\ remoteChunks = 1
    /\ tree = NoTree
    /\ out = NoOutputDir
    /\ Fresh

\* python -m tapas.dataset main: main(input_path, output_dir, extract_to)
InitProcess ==
    /\ cmd = "process"
    /\ url = DefaultUrl
    /\ skip_download = FALSE
    /\ phase = "PROCESSING"
    /\ local \in {NoFile, Truncated} \cup DatasetArchives
    /\ remote = PublishedArchive
    /\ remoteChunks = 1
    /\ tree = NoTree
    /\ out \in {NoOutputDir, EmptyOutputDir}
    /\ Fresh

\* main on an archive of arbitrary entry names, the extraction directory
\* missing, empty, or holding a file a from before
InitExtract ==
    /\ cmd = "process"
    /\ url = DefaultUrl
    /\ skip_download = FALSE
    /\ phase = "PROCESSING"
    /\ local \in NamedArchives
    /\ remote = PublishedArchive
    /\ remoteChunks = 1
    /\ tree \in {NoTree, MkRoot(NoTree),
                 Put(MkRoot(NoTree), << <<"a">> >>, FileNode(Csv(1, 1)))}
    /\ out = EmptyOutputDir
    /\ Fresh

\* =========================================================================
\* Actions
\* =========================================================================
\* RunStart without the test of download_path.exists() at line 49: the
\* download is made whenever skip_download is false
RunStartNoExistsTest(skip) ==
    /\ cmd = "run"
    /\ phase = "NOT_STARTED"
    /\ skip_download' = skip
    /\ phase' = IF ~skip THEN "DOWNLOADING" ELSE "SKIPPED"
    /\ log' = <<"info:pipeline-start">> \o
              (IF skip THEN <<"info:skip-download">> ELSE <<"info:step-download">>)
    /\ UNCHANGED <<cmd, url, local, remote, remoteChunks, stream, tree, out,
                   netRequests, requested, fileId, exc, downloadCalls, processCalls,
                   input, adj_files, records, data_dir, done, before, runs>>

\* run, lines 47-53 and 60-61: the branch on skip_download and, when the
\* download is wanted, on download_path.exists()
RunStart(skip) ==
    /\ cmd = "run"
    /\ phase = "NOT_STARTED"
    /\ skip_download' = skip
    /\ phase' = IF ~skip /\ ~local.exists THEN "DOWNLOADING" ELSE "SKIPPED"
    /\ log' = <<"info:pipeline-start">> \o
              (IF skip THEN <<"info:skip-download">>
               ELSE IF local.exists
               THEN <<"info:step-download", "warning:file-already-exists",
                      "info:using-existing-file">>
               ELSE <<"info:step-download">>)
    /\ UNCHANGED <<cmd, url, local, remote, remoteChunks, stream, tree, out,
                   netRequests, requested, fileId, exc, downloadCalls, processCalls,
                   input, adj_files, records, data_dir, done, before, runs>>

\* RunSkipped without the raise of line 65: step 2 is entered with the file
\* missing
RunSkippedNoRaise ==
    /\ cmd = "run"
    /\ phase = "SKIPPED"
    /\ phase' = "PROCESSING"
    /\ log' = log \o <<"info:step-process">>
    /\ UNCHANGED <<cmd, url, skip_download, local, remote, remoteChunks, stream,
                   tree, out, netRequests, requested, fileId, exc, downloadCalls,
                   processCalls, input, adj_files, records, data_dir, done, before,
                   runs>>

\* run, lines 62-68: with skip_download, the check that the file is there;
\* then on to step 2
RunSkipped ==
    /\ cmd = "run"
    /\ phase = "SKIPPED"
    /\ IF skip_download /\ ~local.exists
       THEN /\ phase' = "FAILED"
            /\ exc' = "FileNotFoundError"
            /\ log' = log \o <<"error:download-file-not-found">>
       ELSE /\ phase' = "PROCESSING"
            /\ exc' = exc
            /\ log' = log \o <<"info:step-process">>
    /\ UNCHANGED <<cmd, url, skip_download, local, remote, remoteChunks, stream,
                   tree, out, netRequests, requested, fileId, downloadCalls,
                   processCalls, input, adj_files, records, data_dir, done, before,
                   runs>>

\* what run logs when download_from_figshare raises (line 58); the download
\* command logs nothing
DownloadFailedLog == IF cmd = "run" THEN <<"error:download-failed">> ELSE <<>>

\* download_from_figshare, lines 36-66: resolve the file id, issue the
\* request, check the status, create the parent directory and open the
\* destination for writing.  resp is the server's answer.
DownloadRequest(resp) ==
    /\ phase = "DOWNLOADING"
    /\ ~stream.open
    /\ downloadCalls' = downloadCalls + 1
    /\ \E id \in {ResolveFileId(url)} :
           /\ fileId' = id
           /\ IF id = NoId
              THEN /\ exc' = "ValueError"
                   /\ phase' = "FAILED"
                   /\ log' = log \o DownloadFailedLog
                   /\ UNCHANGED <<netRequests, requested, stream, local>>
              ELSE /\ netRequests' = netRequests + 1
                   /\ requested' = DownloadUrl(id)
                   /\ IF resp = "ok"
                      THEN /\ stream' = [open |-> TRUE, got |-> 0]
                           /\ local' = Truncated
                           /\ log' = log \o <<"info:downloading-file">>
                           /\ UNCHANGED <<exc, phase>>
                      ELSE /\ exc' = IF resp = "http-error" THEN "HTTPError"
                                     ELSE "ConnectionError"
                           /\ phase' = "FAILED"
                           /\ log' = log \o <<"info:downloading-file">> \o DownloadFailedLog
                           /\ UNCHANGED <<stream, local>>
    /\ UNCHANGED <<cmd, url, skip_download, remote, remoteChunks, tree, out,
                   processCalls, input, adj_files, records, data_dir, done,
                   before, runs>>

\* DownloadChunk with the exception of a failed transfer swallowed: run goes
\* on to step 2 with the file as far as it was written
DownloadChunkSwallows(next) ==
    /\ phase = "DOWNLOADING"
    /\ stream.open
    /\ IF next # "error" /\ stream.got < remoteChunks
       THEN /\ stream' = [stream EXCEPT !.got = @ + 1]
            /\ UNCHANGED <<phase, log, local>>
       ELSE /\ stream' = Closed
            /\ local' = IF next = "error" THEN local ELSE remote
            /\ phase' = IF cmd = "run" THEN "PROCESSING" ELSE "DONE"
            /\ log' = log \o <<"success:downloaded">>
    /\ UNCHANGED <<cmd, url, skip_download, remote, remoteChunks, tree, out,
                   netRequests, requested, fileId, exc, downloadCalls, processCalls,
                   input, adj_files, records, data_dir, done, before, runs>>

\* DownloadChunk with the partial file removed when the transfer fails
DownloadChunkCleansUp(next) ==
    /\ phase = "DOWNLOADING"
    /\ stream.open
    /\ IF next = "error"
       THEN /\ stream' = Closed
            /\ exc' = "ConnectionError"
            /\ phase' = "FAILED"
            /\ log' = log \o DownloadFailedLog
            /\ local' = NoFile
       ELSE IF stream.got < remoteChunks
       THEN /\ stream' = [stream EXCEPT !.got = @ + 1]
            /\ UNCHANGED <<exc, phase, log, local>>
       ELSE /\ stream' = Closed
            /\ local' = remote
            /\ exc' = exc
            /\ phase' = IF cmd = "run" THEN "PROCESSING" ELSE "DONE"
            /\ log' = log \o <<"success:downloaded">> \o
                      (IF cmd = "run" THEN <<"success:download-complete", "info:step-process">>
                       ELSE <<>>)
    /\ UNCHANGED <<cmd, url, skip_download, remote, remoteChunks, tree, out,
                   netRequests, requested, fileId, downloadCalls, processCalls,
                   input, adj_files, records, data_dir, done, before, runs>>

\* download_from_figshare, lines 73-78, one turn of the loop over
\* iter_content: the next chunk is written, the body ends (the file is
\* complete, and run goes on to step 2), or the transport fails and the
\* exception leaves the file as far as it was written
DownloadChunk(next) ==
    /\ phase = "DOWNLOADING"
    /\ stream.open
    /\ IF next = "error"
       THEN /\ stream' = Closed
            /\ exc' = "ConnectionError"
            /\ phase' = "FAILED"
            /\ log' = log \o DownloadFailedLog
            /\ local' = local
       ELSE IF stream.got < remoteChunks
       THEN /\ stream' = [stream EXCEPT !.got = @ + 1]
            /\ UNCHANGED <<exc, phase, log, local>>
       ELSE /\ stream' = Closed
            /\ local' = remote
            /\ exc' = exc
            /\ phase' = IF cmd = "run" THEN "PROCESSING" ELSE "DONE"
            /\ log' = log \o <<"success:downloaded">> \o
                      (IF cmd = "run" THEN <<"success:download-complete", "info:step-process">>
                       ELSE <<>>)
    /\ UNCHANGED <<cmd, url, skip_download, remote, remoteChunks, tree, out,
                   netRequests, requested, fileId, downloadCalls, processCalls,
                   input, adj_files, records, data_dir, done, before, runs>>

\* what run logs around process_dataset (lines 75-85); main logs nothing
ProcessLog(e) ==
    IF cmd # "run" THEN <<>>
    ELSE IF e = "none" THEN <<"success:processing-complete", "success:pipeline-complete">>
    ELSE <<"error:processing-failed">>

\* process_dataset(input_path=download_path, output_dir, extract_to), called
\* from run (lines 69-78) or from main (line 238).  x is what extract_zip
\* leaves, files the list adj_matrices_dir.glob returns: the directory's CSV
\* files in the order the file system lists them.
Process(x, files) ==
    /\ phase = "PROCESSING"
    /\ \E r \in {ProcessDataset(local, tree, out, x, files)} :
           /\ tree' = r.tree
           /\ out' = r.out
           /\ exc' = r.exc
           /\ phase' = IF r.exc = "none" THEN "DONE" ELSE "FAILED"
           /\ log' = log \o r.log \o ProcessLog(r.exc)
           /\ records' = r.records
           /\ data_dir' = r.data_dir
           /\ done' = r.done
    /\ processCalls' = processCalls + 1
    /\ input' = local
    /\ adj_files' = files
    /\ UNCHANGED <<cmd, url, skip_download, local, remote, remoteChunks, stream,
                   netRequests, requested, fileId, downloadCalls, before, runs>>

\* the pipeline is invoked again, on the files the last invocation left
NewRun ==
    /\ cmd = "run"
    /\ phase \in {"DONE", "FAILED"}
    /\ runs < MaxRuns
    /\ runs' = runs + 1
    /\ phase' = "NOT_STARTED"
    /\ exc' = "none"
    /\ log' = <<>>
    /\ downloadCalls' = 0
    /\ processCalls' = 0
    /\ before' = Snapshot
    /\ UNCHANGED <<cmd, url, skip_download, local, remote, remoteChunks, stream,
                   tree, out, netRequests, requested, fileId, input, adj_files,
                   records, data_dir, done>>

Responses == {"ok", "http-error", "unreachable"}

DoDownloadRequest == \E resp \in Responses : DownloadRequest(resp)

DoDownloadChunk == \E next \in {"data", "error"} : DownloadChunk(next)

DoRunStart == \E skip \in BOOLEAN : RunStart(skip)

DoProcess ==
    /\ phase = "PROCESSING"
    /\ \E x \in {ExtractZip(local, tree)} :
           \E files \in Orderings(GlobAfter(x)) : Process(x, files)

Next ==
    \/ DoRunStart
    \/ RunSkipped
    \/ DoDownloadRequest
    \/ DoDownloadChunk
    \/ DoProcess
    \/ NewRun

NextDownload ==
    \/ DoDownloadRequest
    \/ DoDownloadChunk

NextProcess == DoProcess

Spec == Init /\ [][Next]_vars

SpecDownload == InitDownload /\ [][NextDownload]_vars

SpecProcess == InitProcess /\ [][NextProcess]_vars

SpecExtract == InitExtract /\ [][NextProcess]_vars

\* =========================================================================
\* Properties of run (Spec)
\* =========================================================================
Logged(line) == line \in Range(log)

Ended == phase \in {"DONE", "FAILED"}

PhaseSteps ==
    {<<"NOT_STARTED", "DOWNLOADING">>, <<"NOT_STARTED", "SKIPPED">>,
     <<"DOWNLOADING", "PROCESSING">>, <<"DOWNLOADING", "FAILED">>,
     <<"SKIPPED", "PROCESSING">>, <<"SKIPPED", "FAILED">>,
     <<"PROCESSING", "DONE">>, <<"PROCESSING", "FAILED">>,
     <<"DONE", "NOT_STARTED">>, <<"FAILED", "NOT_STARTED">>}

\* one step of a run, as C2 allows it
C2_Step ==
    /\ phase' # phase => <<phase, phase'>> \in PhaseSteps
    \* process_dataset is called in PROCESSING only, which is entered from a
    \* download that returned or from a skipped download with the file there
    /\ processCalls' # processCalls /\ phase' # "NOT_STARTED" =>
           /\ phase = "PROCESSING" /\ processCalls = 0 /\ processCalls' = 1
    /\ phase # "PROCESSING" /\ phase' = "PROCESSING" =>
           /\ local'.exists
           /\ exc' = "none"
           /\ \/ phase = "DOWNLOADING" /\ ~stream'.open /\ local' = remote
              \/ phase = "SKIPPED" /\ downloadCalls = 0
    \* an exception ends the run FAILED, logged; the run is FAILED by an
    \* exception only
    /\ phase' # "NOT_STARTED" => (exc' # "none" <=> phase' = "FAILED")
    /\ phase # "FAILED" /\ phase' = "FAILED" =>
           /\ phase = "DOWNLOADING"  => Last(log') = "error:download-failed"
           /\ phase = "PROCESSING"   => Last(log') = "error:processing-failed"
           /\ phase = "SKIPPED"      => Last(log') = "error:download-file-not-found"
    \* a download that raises leaves process_dataset uncalled
    /\ phase = "DOWNLOADING" /\ phase' = "FAILED" => processCalls' = 0
    /\ phase' = "DONE" => processCalls' = 1

\* C2: every step of a run is one of NOT_STARTED -> DOWNLOADING | SKIPPED,
\* DOWNLOADING | SKIPPED -> PROCESSING | FAILED, PROCESSING -> DONE | FAILED
\* (and a new invocation starts NOT_STARTED); process_dataset is called only
\* after the download returned or was skipped with the file present; an
\* exception of either step is logged and ends the run FAILED; a download
\* that raises leaves process_dataset uncalled.
C2_RunStateMachine == [][C2_Step]_vars

C2_Witness ==
    /\ cmd = "run" /\ phase = "DONE" /\ downloadCalls = 1 /\ processCalls = 1

\* C3: a run with skip_download true and no file at download_path fails
\* with FileNotFoundError: no request, no call of download_from_figshare or
\* process_dataset, nothing extracted or written.
C3_SkipWithoutFileFails ==
    (cmd = "run" /\ phase # "NOT_STARTED" /\ skip_download /\ ~before.local.exists) =>
        /\ phase \in {"SKIPPED", "FAILED"}
        /\ phase = "FAILED" => exc = "FileNotFoundError"
        /\ netRequests = before.net
        /\ downloadCalls = 0
        /\ processCalls = 0
        /\ local = before.local /\ tree = before.tree /\ out = before.out

C3_Witness ==
    /\ cmd = "run" /\ skip_download /\ ~before.local.exists
    /\ phase = "FAILED" /\ exc = "FileNotFoundError"

\* one step, as C10 allows it
C10_Step ==
    \* a transfer that fails once the destination is open leaves the file
    \* there, truncated, and the run FAILED
    /\ stream.open /\ ~stream'.open /\ exc' # "none" =>
           local' = Truncated /\ phase' = "FAILED"
    \* the file at download_path stays
    /\ local.exists => local'.exists
    \* no request once the file is there
    /\ local.exists => netRequests' = netRequests
    \* process_dataset gets the file that is there
    /\ processCalls' = processCalls + 1 => input' = local
    \* a run that finds the file makes no download
    /\ before.local.exists /\ phase' # "NOT_STARTED" =>
           downloadCalls' = 0 /\ netRequests' = before.net /\ local' = before.local

QueryOpens(u, i) ==
    /\ i \in 1..Len(u) /\ u[i] = "?"
    /\ \A j \in 1..(i-1) : u[j] \notin {"?", "#"}

InQuery(u, k) ==
    /\ k \in 1..Len(u)
    /\ \E i \in 1..(k-1) : QueryOpens(u, i)
    /\ \A j \in 1..k : u[j] # "#"

\* a query field file=<value>, with a value that is not blank, starts at k
FileFieldAt(u, k) ==
    /\ InQuery(u, k) /\ InQuery(u, k + 2)
    /\ QueryOpens(u, k - 1) \/ u[k-1] = "&"
    /\ u[k] = "file" /\ u[k+1] = "=" /\ u[k+2] # "&"

\* the value of the field that starts at k: up to the next "&", the "#" or
\* the end of the URL
FieldValue(u, k) ==
    SubSeq(u, k + 2,
           CHOOSE e \in (k+2)..Len(u) :
               /\ \A j \in (k+2)..e : u[j] \notin {"&", "#"}
               /\ e = Len(u) \/ u[e+1] \in {"&", "#"})

\* <id> of the first ?file=<id> / &file=<id> of the URL
QueryId(u) ==
    FieldValue(u, CHOOSE k \in 1..Len(u) :
                      FileFieldAt(u, k) /\ \A j \in 1..(k-1) : ~FileFieldAt(u, j))

HasQueryId(u) == \E k \in 1..Len(u) : FileFieldAt(u, k)

\* the text /files/<digit> starts at i
FilesSegmentAt(u, i) ==
    /\ i >= 1 /\ i + 3 <= Len(u)
    /\ SubSeq(u, i, i + 2) = <<"/", "files", "/">>
    /\ u[i+3] \in Digits

HasSegmentId(u) == \E i \in 1..Len(u) : FilesSegmentAt(u, i)

\* <id> of the first /files/<id> of the URL: all the digits that follow
SegmentId(u) ==
    SubSeq(u,
           3 + (CHOOSE i \in 1..Len(u) :
                    FilesSegmentAt(u, i) /\ \A j \in 1..(i-1) : ~FilesSegmentAt(u, j)),
           CHOOSE e \in 1..Len(u) :
               /\ e >= 3 + (CHOOSE i \in 1..Len(u) :
                    FilesSegmentAt(u, i) /\ \A j \in 1..(i-1) : ~FilesSegmentAt(u, j))
               /\ \A j \in (3 + (CHOOSE i \in 1..Len(u) :
                    FilesSegmentAt(u, i) /\ \A m \in 1..(i-1) : ~FilesSegmentAt(u, m)))..e :
                      u[j] \in Digits
               /\ e = Len(u) \/ u[e+1] \notin Digits)

\* C6: once download_from_figshare has resolved the identifier: a URL with a
\* query parameter file=<id> is downloaded from .../files/<id>, whatever its
\* path holds; a URL without one and with a path segment /files/<id> from
\* that <id>; a URL with neither raises ValueError with no request made and
\* no file or directory created.
C6_FileIdResolution ==
    (cmd = "download" /\ downloadCalls = 1) =>
        /\ HasQueryId(url) =>
               /\ fileId = QueryId(url)
               /\ netRequests = 1
               /\ requested = <<"https://ndownloader.figshare.com/files/">> \o QueryId(url)
        /\ ~HasQueryId(url) /\ HasSegmentId(url) =>
               /\ fileId = SegmentId(url)
               /\ netRequests = 1
               /\ requested = <<"https://ndownloader.figshare.com/files/">> \o SegmentId(url)
        /\ ~HasQueryId(url) /\ ~HasSegmentId(url) =>
               /\ exc = "ValueError" /\ phase = "FAILED"
               /\ netRequests = 0 /\ requested = <<>> /\ ~stream.open
               /\ local = before.local /\ tree = before.tree /\ out = before.out

\* a URL with /files/1 in its path and ?file=2 as its query: 2 is requested
C6_Witness ==
    /\ cmd = "download" /\ downloadCalls = 1
    /\ url = <<"/", "files", "/", "1", "?", "file", "=", "2">>
    /\ fileId = <<"2">> /\ netRequests = 1

\* a URL with no identifier: the failure
C6_WitnessNone ==
    /\ cmd = "download" /\ downloadCalls = 1
    /\ url = <<"/", "files", "/", "?", "file", "=">>
    /\ exc = "ValueError" /\ netRequests = 0

\* =========================================================================
\* Properties of process_dataset (SpecProcess, SpecExtract)
\* =========================================================================
Returned == processCalls = 1 /\ exc = "none"

\* C4: process_dataset raises if and only if there is no file at input_path.
C4_RaisesOnlyOnMissingInput ==
    processCalls = 1 => (exc # "none" <=> ~input.exists)

\* C5: with no file at input_path, process_dataset raises FileNotFoundError
\* and leaves the file system as it was: no extraction directory, no entry
\* extracted, neither output file.
C5_MissingInputChangesNothing ==
    (processCalls = 1 /\ ~input.exists) =>
        /\ phase = "FAILED" /\ exc = "FileNotFoundError"
        /\ Logged("error:input-not-found")
        /\ done = <<>>
        /\ tree = before.tree /\ out = before.out /\ local = before.local

C5_Witness ==
    /\ cmd = "process" /\ processCalls = 1 /\ ~input.exists
    /\ phase = "FAILED" /\ ~Exists(tree, <<>>) /\ ~out.exists

\* the non-empty "/"-separated components of an entry name, read token by
\* token (cur is the component being read)
RECURSIVE Components(_, _)
Components(n, cur) ==
    IF n = <<>> THEN (IF cur = <<>> THEN <<>> ELSE <<cur>>)
    ELSE IF Head(n) = "/"
    THEN (IF cur = <<>> THEN <<>> ELSE <<cur>>) \o Components(Tail(n), <<>>)
    ELSE Components(Tail(n), Append(cur, Head(n)))

\* the entry's path as the archive gives it
RelativePath(n) == Components(n, <<>>)

NotDots(c) == c # <<"..">> /\ c # <<".">>

\* the entry's path without its "." and ".." components
CleanPath(n) == SelectSeq(RelativePath(n), NotDots)

Reserved(n) == n[1] = "__MACOSX" \/ n[Len(n)] = ".DS_Store"

EntryNames == {input.entries[i].name : i \in 1..Len(input.entries)}

AllLoad == \A i \in 1..Len(adj_files) : CanReadCsv(tree, adj_files[i])

\* the metadata table
Metadata == IF out.metadata = <<>> THEN <<>> ELSE out.metadata[1]

Min(a, b) == IF a < b THEN a ELSE b

\* C8: with CSV files in the adjacency directory that all load, the
\* metadata table holds five records when there are more than five files
\* and as many records as files when there are fewer; each record holds its
\* file's shape and its path relative to the directory extract_zip returned.
C8_MetadataRecords ==
    (processCalls = 1 /\ input.valid /\ adj_files # <<>> /\ AllLoad) =>
        /\ Len(adj_files) > SampleSize => Len(Metadata) = SampleSize
        /\ Len(adj_files) < SampleSize => Len(Metadata) = Len(adj_files)
        /\ \A i \in 1..Len(Metadata) :
               /\ Metadata[i].shape = <<tree[adj_files[i]].data.rows,
                                        tree[adj_files[i]].data.cols>>
               /\ data_dir \o Metadata[i].file_path = adj_files[i]

\* the files among the first five listed that load, in the order listed
RECURSIVE Loaded(_, _)
Loaded(files, k) ==
    IF k = 0 \/ files = <<>> THEN <<>>
    ELSE (IF CanReadCsv(tree, Head(files)) THEN <<Head(files)>> ELSE <<>>)
         \o Loaded(Tail(files), k - 1)

SomeSampledFails ==
    \E i \in 1..Min(SampleSize, Len(adj_files)) : ~CanReadCsv(tree, adj_files[i])

IsWarning(line) == line = "warning:matrix-load-failed"

\* C9: when one of the first five files listed does not load, a warning is
\* logged for it, the records collected are those of the files among the
\* first five that load, in order, and the metadata table is written if and
\* only if a record was collected.
C9_LoadFailureTolerated ==
    (processCalls = 1 /\ input.valid /\ SomeSampledFails) =>
        /\ Len(records) = Len(Loaded(adj_files, SampleSize))
        /\ \A i \in 1..Len(records) :
               data_dir \o records[i].file_path = Loaded(adj_files, SampleSize)[i]
        /\ Len(SelectSeq(log, IsWarning)) + Len(records) = Min(SampleSize, Len(adj_files))
        /\ out.metadata # <<>> <=> records # <<>>

=============================================================================
